---- MODULE Spec2Model ----
(***************************************************************************)
(* Model of crates/valence/src/equipment.rs: the Equipments component (a   *)
(* table of six optional equipment entries plus the modified_slots bit     *)
(* set) and the update_equipment system that sends SetEquipment packets to *)
(* the clients that have the equiped entity in view.                       *)
(***************************************************************************)
EXTENDS Integers, Sequences, FiniteSets

\* ------------------------------------------------------------------------
\* Bounds of the model
\* ------------------------------------------------------------------------
\* number of calls of set / remove / clear in one behaviour of Spec
MaxMutations == 2
\* number of calls of set / remove / clear in one behaviour of StoreSpec
MaxStoreMutations == 4
\* number of calls of set / remove / clear in one behaviour of ApiSpec
MaxApiMutations == 3
\* number of changes of instance, position or view in one behaviour
MaxWorldChanges == 1
\* the usize values 0..MaxUsize are decoded
MaxUsize == 600
\* calls of set / remove / clear and world changes in ObsSpec
MaxObsMutations == 2
MaxObsWorldChanges == 2

\* ------------------------------------------------------------------------
\* Program constants and the world the system runs in
\* ------------------------------------------------------------------------
EQUIPMENT_SLOTS == 6

\* entities carrying (McEntity, Equipments): 1 is a player, 2 is a mob
EquipedEntities == <<1, 2>>
\* entities carrying Client: 1 is the player above, 3 only observes
ClientEntities == <<1, 3>>

Range(s) == {s[i] : i \in DOMAIN s}
Equiped == Range(EquipedEntities)
Clients == Range(ClientEntities)

Instances == {1, 2}
ChunkPositions == {1, 2}
\* item stacks are opaque values
ItemStack == {"GreenWool", "Stone"}

\* McEntity::protocol_id(): the network id, distinct from the ECS entity id
protocol_id(e) == 100 + e

\* Option<T>: None is the empty sequence, Some(x) the one-element sequence
None == <<>>
Some(x) == <<x>>
is_some(o) == o # None
unwrap(o) == o[1]

\* ------------------------------------------------------------------------
\* Integer casts and the shift used on the u8 bit set
\* ------------------------------------------------------------------------
as_u8(n) == n % 256
as_i8(n) == IF n % 256 >= 128 THEN (n % 256) - 256 ELSE n % 256

\* 1 << n on a u8 (the shift amount wraps at the width, as in release builds)
shl1(n) == (2 ^ (n % 8)) % 256
\* m & (1 << n) != 0
bit_and_nonzero(m, n) == (m \div shl1(n)) % 2 = 1
\* m | (1 << n)
bit_or(m, n) == IF bit_and_nonzero(m, n) THEN m ELSE (m + shl1(n)) % 256

\* ------------------------------------------------------------------------
\* EquipmentSlot and its conversions
\* ------------------------------------------------------------------------
EquipmentSlot == {"MainHand", "OffHand", "Boots", "Leggings", "Chestplate", "Helmet"}

\* the discriminant of the fieldless enum, by declaration order
discriminant(slot) ==
    CASE slot = "MainHand" -> 0
      [] slot = "OffHand" -> 1
      [] slot = "Boots" -> 2
      [] slot = "Leggings" -> 3
      [] slot = "Chestplate" -> 4
      [] slot = "Helmet" -> 5

Ok(v) == [ok |-> TRUE, val |-> Some(v), err |-> ""]
Err(msg) == [ok |-> FALSE, val |-> None, err |-> msg]

\* impl TryFrom<u8> for EquipmentSlot
try_from_u8(id) ==
    CASE id = 0 -> Ok("MainHand")
      [] id = 1 -> Ok("OffHand")
      [] id = 2 -> Ok("Boots")
      [] id = 3 -> Ok("Leggings")
      [] id = 4 -> Ok("Chestplate")
      [] id = 5 -> Ok("Helmet")
      [] OTHER -> Err("Invalid value")

\* impl TryFrom<usize> for EquipmentSlot
try_from_usize(id) == try_from_u8(as_u8(id))

\* impl TryFrom<i8> for EquipmentSlot
try_from_i8(id) == try_from_u8(as_u8(id))

\* From<EquipmentSlot> for u8 with the armor codes in inventory order
u8_from_armor_reversed(slot) ==
    CASE slot = "MainHand" -> 0
      [] slot = "OffHand" -> 1
      [] slot = "Boots" -> 5
      [] slot = "Leggings" -> 4
      [] slot = "Chestplate" -> 3
      [] slot = "Helmet" -> 2

\* impl From<EquipmentSlot> for u8
u8_from(slot) ==
    CASE slot = "MainHand" -> 0
      [] slot = "OffHand" -> 1
      [] slot = "Boots" -> 2
      [] slot = "Leggings" -> 3
      [] slot = "Chestplate" -> 4
      [] slot = "Helmet" -> 5

\* impl From<EquipmentSlot> for i8: EquipmentSlot::from(slot) as i8
i8_from(slot) == as_i8(discriminant(slot))

\* impl From<EquipmentSlot> for usize: EquipmentSlot::from(slot) as usize
usize_from(slot) == discriminant(slot)

\* ------------------------------------------------------------------------
\* struct Equipments and its methods; self is
\*   [equipments |-> [0..5 -> Option<EquipmentEntry>], modified_slots |-> u8]
\* ------------------------------------------------------------------------
SlotIndexes == 0..(EQUIPMENT_SLOTS - 1)

EquipmentEntry(slot_code, item) == [slot |-> slot_code, item |-> item]

\* new that starts with every slot marked as modified
new_all_dirty == [equipments |-> [i \in SlotIndexes |-> None], modified_slots |-> 63]

\* Equipments::new / Equipments::default
new == [equipments |-> [i \in SlotIndexes |-> None], modified_slots |-> 0]

\* set_modified_slot with = in place of |=
set_modified_slot_assign(self, slot) ==
    [self EXCEPT !.modified_slots = shl1(usize_from(slot))]

\* Equipments::set_modified_slot
set_modified_slot(self, slot) ==
    [self EXCEPT !.modified_slots = bit_or(@, usize_from(slot))]

\* clear_modified_slot with a mask one bit short: the last slot stays marked
clear_modified_slot_short(self) ==
    [self EXCEPT !.modified_slots = @ - (@ % 32)]

\* Equipments::clear_modified_slot
clear_modified_slot(self) == [self EXCEPT !.modified_slots = 0]

\* set that skips the dirty mark when the slot already holds the item
set_skip_same(self, item, slot) ==
    LET slot_idx == usize_from(slot)
        entry == Some(EquipmentEntry(as_i8(slot_idx), Some(item)))
        stored == [self EXCEPT !.equipments[slot_idx] = entry]
    IN  IF self.equipments[slot_idx] = entry THEN stored
        ELSE set_modified_slot(stored, slot)

\* set that rebuilds the table around the new entry
set_resets_table(self, item, slot) ==
    LET slot_idx == usize_from(slot)
        stored == [self EXCEPT !.equipments =
                      [i \in SlotIndexes |->
                          IF i = slot_idx
                          THEN Some(EquipmentEntry(as_i8(slot_idx), Some(item)))
                          ELSE None]]
    IN  set_modified_slot(stored, slot)

\* set that stores the slot code off by one
set_code_plus_one(self, item, slot) ==
    LET slot_idx == usize_from(slot)
        stored == [self EXCEPT !.equipments[slot_idx] =
                      Some(EquipmentEntry(as_i8(slot_idx + 1), Some(item)))]
    IN  set_modified_slot(stored, slot)

\* Equipments::set
set(self, item, slot) ==
    LET slot_idx == usize_from(slot)
        stored == [self EXCEPT !.equipments[slot_idx] =
                      Some(EquipmentEntry(as_i8(slot_idx), Some(item)))]
    IN  set_modified_slot(stored, slot)

\* Equipments::clear: the loop body, for the table indexes i..5 in order
RECURSIVE clear_from(_, _)
clear_from(self, i) ==
    IF i >= EQUIPMENT_SLOTS THEN self
    ELSE IF is_some(self.equipments[i])
         THEN LET equip == unwrap(self.equipments[i])
              IN  clear_from([self EXCEPT
                                !.modified_slots = bit_or(@, as_u8(equip.slot)),
                                !.equipments[i] = None], i + 1)
         ELSE clear_from(self, i + 1)

\* clear that empties the table without marking anything
clear_no_mark(self) == [self EXCEPT !.equipments = [i \in SlotIndexes |-> None]]

\* clear with the mark outside of the `if let`: every slot is marked
clear_marks_all(self) ==
    [equipments |-> [i \in SlotIndexes |-> None],
     modified_slots |-> (self.modified_slots - (self.modified_slots % 64)) + 63]

\* Equipments::clear
clear(self) == clear_from(self, 0)

\* remove with set_modified_slot outside of the `if let`
remove_always_marks(self, slot) ==
    LET slot_idx == usize_from(slot)
        taken == self.equipments[slot_idx]
        emptied == [self EXCEPT !.equipments[slot_idx] = None]
    IN  [self |-> set_modified_slot(emptied, slot),
         ret |-> IF is_some(taken) THEN Some(unwrap(taken)) ELSE None]

\* remove that reads the slot without take(): the entry stays in the table
remove_no_take(self, slot) ==
    LET slot_idx == usize_from(slot)
        taken == self.equipments[slot_idx]
    IN  IF is_some(taken)
        THEN [self |-> set_modified_slot(self, slot), ret |-> Some(unwrap(taken))]
        ELSE [self |-> self, ret |-> None]

\* Equipments::remove: the new value of self and the returned option
remove(self, slot) ==
    LET slot_idx == usize_from(slot)
        taken == self.equipments[slot_idx]
        emptied == [self EXCEPT !.equipments[slot_idx] = None]
    IN  IF is_some(taken)
        THEN [self |-> set_modified_slot(emptied, slot), ret |-> Some(unwrap(taken))]
        ELSE [self |-> emptied, ret |-> None]

\* Equipments::get
get(self, slot) ==
    LET slot_idx == usize_from(slot)
    IN  IF is_some(self.equipments[slot_idx])
        THEN Some(unwrap(self.equipments[slot_idx]))
        ELSE None

\* Equipments::is_empty: is_empty() of the array [_; EQUIPMENT_SLOTS]
is_empty(self) == Cardinality(DOMAIN self.equipments) = 0

\* Equipments::has_modified_slots
has_modified_slots(self) == self.modified_slots # 0

\* Equipments::iter_modified_slots: the slots yielded for indexes i..5
RECURSIVE modified_slots_from(_, _)
modified_slots_from(modified_slots, i) ==
    IF i >= EQUIPMENT_SLOTS THEN <<>>
    ELSE IF bit_and_nonzero(modified_slots, i)
         THEN <<unwrap(try_from_usize(i).val)>> \o modified_slots_from(modified_slots, i + 1)
         ELSE modified_slots_from(modified_slots, i + 1)

\* iter_modified_slots over (1..EQUIPMENT_SLOTS) in place of (0..EQUIPMENT_SLOTS)
iter_modified_slots_from_one(self) == modified_slots_from(self.modified_slots, 1)

\* Equipments::iter_modified_slots
iter_modified_slots(self) == modified_slots_from(self.modified_slots, 0)

\* iter_modified_equipments with filter_map(get) : empty slots are left out
iter_modified_equipments_skip_empty(self) ==
    LET slots == SelectSeq(iter_modified_slots(self), LAMBDA sl : is_some(get(self, sl)))
    IN  [k \in 1..Len(slots) |-> unwrap(get(self, slots[k]))]

\* Equipments::iter_modified_equipments
iter_modified_equipments(self) ==
    LET slots == iter_modified_slots(self)
    IN  [k \in 1..Len(slots) |->
            IF is_some(get(self, slots[k]))
            THEN unwrap(get(self, slots[k]))
            ELSE EquipmentEntry(i8_from(slots[k]), None)]

\* ------------------------------------------------------------------------
\* State
\* ------------------------------------------------------------------------
VARIABLES
    equips,           \* the Equipments component of every equiped entity
    changed,          \* Changed<Equipments> as seen by update_equipment
    mc_instance,      \* McEntity::instance() of every equiped entity
    mc_position,      \* ChunkPos::from_dvec3(McEntity::position())
    client_instance,  \* Client::instance() of every client
    client_view,      \* Client::view(), as the set of chunk positions it contains
    trace,            \* the calls update_equipment made, in order, when it is the
                      \* operation that produced the current state
    last_op,          \* the operation that produced the current state
    ret,              \* what that operation returned
    mutations,        \* calls of set / remove / clear so far
    world_changes,    \* changes of instance, position or view so far
    max_mutations,    \* calls of set / remove / clear the behaviour may make
    max_world_changes, \* changes of instance, position or view it may make
    conv,             \* the last conversion between EquipmentSlot and an integer
    observer,         \* the client whose received packets are followed (0: none)
    replica,          \* the items it holds for ObservedEntity, slot by slot
    synced,           \* replica was equal to the slots of ObservedEntity and
                      \* the client was written every packet about it since
    missed            \* the slots of ObservedEntity whose bit was cleared by a
                      \* run that wrote the client no packet, not mutated since

vars == <<equips, changed, mc_instance, mc_position, client_instance, client_view,
          trace, last_op, ret, mutations, world_changes, max_mutations,
          max_world_changes, conv, observer, replica, synced, missed>>

store_vars == <<equips, changed>>
world_vars == <<mc_instance, mc_position, client_instance, client_view>>
limits == <<max_mutations, max_world_changes>>
history == <<replica, synced, missed>>

\* dropped is the old content of the slot that set overwrites
Op(name, e, slot, item, dropped) ==
    [op |-> name, entity |-> e, slot |-> slot, item |-> item, dropped |-> dropped]

\* one call made by update_equipment: client.write_packet(&SetEquipment {..})
write_packet(client_entity, equiped_entity, equipment) ==
    [call |-> "write_packet", client |-> client_entity, entity |-> equiped_entity,
     entity_id |-> protocol_id(equiped_entity), equipment |-> equipment]

\* one call made by update_equipment: equips.clear_modified_slot()
clear_call(equiped_entity) ==
    [call |-> "clear_modified_slot", client |-> 0, entity |-> equiped_entity,
     entity_id |-> protocol_id(equiped_entity), equipment |-> <<>>]

\* one conversion: the impl called, its argument and what it returned
Conversion(fn, arg, result) == [fn |-> fn, arg |-> arg, result |-> result]

\* no conversion was made yet
NoConversion == Conversion("none", 0, 0)

\* ------------------------------------------------------------------------
\* What one client holds for one entity: the client overwrites the slots
\* listed in each SetEquipment packet it is written
\* ------------------------------------------------------------------------
ObservedEntity == EquipedEntities[2]
ObserverClient == ClientEntities[2]

\* the items of the six slots, None for an empty slot
ItemsOf(self) ==
    [i \in SlotIndexes |->
        IF self.equipments[i] = None THEN None ELSE self.equipments[i][1].item]

\* the slots whose content or modified bit a call changed
Mutated(before, after) ==
    {i \in SlotIndexes :
        \/ before.equipments[i] # after.equipments[i]
        \/ (before.modified_slots \div (2 ^ i)) % 2
              # (after.modified_slots \div (2 ^ i)) % 2}

\* the slots whose modified bit a run of update_equipment cleared
Flushed(before, after) ==
    {i \in SlotIndexes :
        /\ (before.modified_slots \div (2 ^ i)) % 2 = 1
        /\ (after.modified_slots \div (2 ^ i)) % 2 = 0}

\* client o has entity e in its instance and in its view, and is not e
Tracks(o, e) ==
    /\ client_instance[o] = mc_instance[e]
    /\ mc_position[e] \in client_view[o]
    /\ o # e

\* the SetEquipment packets about e written to o, among the calls
Received(calls, o, e) ==
    SelectSeq(calls, LAMBDA c : c.call = "write_packet" /\ c.client = o /\ c.entity = e)

\* overwrite every listed slot with the content the entry carries
RECURSIVE ApplyEquipment(_, _)
ApplyEquipment(copy, equipment) ==
    IF equipment = <<>> THEN copy
    ELSE ApplyEquipment([copy EXCEPT ![Head(equipment).slot] = Head(equipment).item],
                        Tail(equipment))

RECURSIVE ApplyPackets(_, _)
ApplyPackets(copy, packets) ==
    IF packets = <<>> THEN copy
    ELSE ApplyPackets(ApplyEquipment(copy, Head(packets).equipment), Tail(packets))

\* every entity was just spawned with Equipments::new(), in the same instance
\* and chunk, in the view of every client
Spawned ==
    /\ equips = [e \in Equiped |-> new]
    /\ changed = [e \in Equiped |-> TRUE]
    /\ mc_instance = [e \in Equiped |-> 1]
    /\ mc_position = [e \in Equiped |-> 1]
    /\ client_instance = [c \in Clients |-> 1]
    /\ client_view = [c \in Clients |-> {1}]
    /\ trace = <<>>
    /\ last_op = Op("new", 0, None, None, None)
    /\ ret = None
    /\ mutations = 0
    /\ world_changes = 0
    /\ conv = NoConversion
    /\ replica = [i \in SlotIndexes |-> None]
    /\ synced = TRUE
    /\ missed = {}

Init ==
    /\ Spawned
    /\ observer = 0
    /\ max_mutations = MaxMutations
    /\ max_world_changes = MaxWorldChanges

\* ------------------------------------------------------------------------
\* The mutation API, called by game logic between two runs of the system
\* ------------------------------------------------------------------------
Set(e, item, slot) ==
    /\ mutations < max_mutations
    /\ equips' = [equips EXCEPT ![e] = set(@, item, slot)]
    /\ changed' = [changed EXCEPT ![e] = TRUE]
    /\ last_op' = Op("set", e, Some(slot), Some(item), equips[e].equipments[usize_from(slot)])
    /\ ret' = None
    /\ mutations' = mutations + 1
    /\ trace' = <<>>
    /\ missed' = IF e = ObservedEntity THEN missed \ Mutated(equips[e], equips'[e]) ELSE missed
    /\ UNCHANGED <<world_vars, world_changes, limits, conv, observer, replica, synced>>

Clear(e) ==
    /\ mutations < max_mutations
    /\ equips' = [equips EXCEPT ![e] = clear(@)]
    /\ changed' = [changed EXCEPT ![e] = TRUE]
    /\ last_op' = Op("clear", e, None, None, None)
    /\ ret' = None
    /\ mutations' = mutations + 1
    /\ trace' = <<>>
    /\ missed' = IF e = ObservedEntity THEN missed \ Mutated(equips[e], equips'[e]) ELSE missed
    /\ UNCHANGED <<world_vars, world_changes, limits, conv, observer, replica, synced>>

Remove(e, slot) ==
    /\ mutations < max_mutations
    /\ equips' = [equips EXCEPT ![e] = remove(@, slot).self]
    /\ changed' = [changed EXCEPT ![e] = TRUE]
    /\ last_op' = Op("remove", e, Some(slot), None, None)
    /\ ret' = remove(equips[e], slot).ret
    /\ mutations' = mutations + 1
    /\ trace' = <<>>
    /\ missed' = IF e = ObservedEntity THEN missed \ Mutated(equips[e], equips'[e]) ELSE missed
    /\ UNCHANGED <<world_vars, world_changes, limits, conv, observer, replica, synced>>

\* ------------------------------------------------------------------------
\* The read-only methods (&self)
\* ------------------------------------------------------------------------
Get(e, slot) ==
    /\ last_op' = Op("get", e, Some(slot), None, None)
    /\ ret' = get(equips[e], slot)
    /\ trace' = <<>>
    /\ UNCHANGED <<store_vars, world_vars, mutations, world_changes, limits, conv,
                   observer, history>>

IsEmpty(e) ==
    /\ last_op' = Op("is_empty", e, None, None, None)
    /\ ret' = is_empty(equips[e])
    /\ trace' = <<>>
    /\ UNCHANGED <<store_vars, world_vars, mutations, world_changes, limits, conv,
                   observer, history>>

HasModifiedSlots(e) ==
    /\ last_op' = Op("has_modified_slots", e, None, None, None)
    /\ ret' = has_modified_slots(equips[e])
    /\ trace' = <<>>
    /\ UNCHANGED <<store_vars, world_vars, mutations, world_changes, limits, conv,
                   observer, history>>

IterModifiedEquipments(e) ==
    /\ last_op' = Op("iter_modified_equipments", e, None, None, None)
    /\ ret' = iter_modified_equipments(equips[e])
    /\ trace' = <<>>
    /\ UNCHANGED <<store_vars, world_vars, mutations, world_changes, limits, conv,
                   observer, history>>

\* ------------------------------------------------------------------------
\* The world around the system: instances, positions and views change
\* ------------------------------------------------------------------------
SetEntityInstance(e, i) ==
    /\ world_changes < max_world_changes
    /\ mc_instance[e] # i
    /\ mc_instance' = [mc_instance EXCEPT ![e] = i]
    /\ last_op' = Op("set_instance", e, None, None, None)
    /\ ret' = None
    /\ world_changes' = world_changes + 1
    /\ trace' = <<>>
    /\ UNCHANGED <<store_vars, mc_position, client_instance, client_view,
                   mutations, limits, conv, observer, history>>

SetEntityPosition(e, p) ==
    /\ world_changes < max_world_changes
    /\ mc_position[e] # p
    /\ mc_position' = [mc_position EXCEPT ![e] = p]
    /\ last_op' = Op("set_position", e, None, None, None)
    /\ ret' = None
    /\ world_changes' = world_changes + 1
    /\ trace' = <<>>
    /\ UNCHANGED <<store_vars, mc_instance, client_instance, client_view,
                   mutations, limits, conv, observer, history>>

SetClientInstance(c, i) ==
    /\ world_changes < max_world_changes
    /\ client_instance[c] # i
    /\ client_instance' = [client_instance EXCEPT ![c] = i]
    /\ last_op' = Op("client_set_instance", c, None, None, None)
    /\ ret' = None
    /\ world_changes' = world_changes + 1
    /\ trace' = <<>>
    /\ UNCHANGED <<store_vars, mc_instance, mc_position, client_view,
                   mutations, limits, conv, observer, history>>

SetClientView(c, v) ==
    /\ world_changes < max_world_changes
    /\ client_view[c] # v
    /\ client_view' = [client_view EXCEPT ![c] = v]
    /\ last_op' = Op("client_set_view", c, None, None, None)
    /\ ret' = None
    /\ world_changes' = world_changes + 1
    /\ trace' = <<>>
    /\ UNCHANGED <<store_vars, mc_instance, mc_position, client_instance,
                   mutations, limits, conv, observer, history>>

\* ------------------------------------------------------------------------
\* update_equipment
\* ------------------------------------------------------------------------
\* client_receives without the test client_entity != equiped_entity
client_receives_self(client_entity, equiped_entity) ==
    /\ ~(client_instance[client_entity] # mc_instance[equiped_entity])
    /\ mc_position[equiped_entity] \in client_view[client_entity]

\* client_receives without the test of the view
client_receives_ignores_view(client_entity, equiped_entity) ==
    /\ ~(client_instance[client_entity] # mc_instance[equiped_entity])
    /\ client_entity # equiped_entity

\* the condition under which the inner loop writes a packet to the client
client_receives(client_entity, equiped_entity) ==
    /\ ~(client_instance[client_entity] # mc_instance[equiped_entity])
    /\ client_entity # equiped_entity
    /\ mc_position[equiped_entity] \in client_view[client_entity]

\* clients_loop that leaves the loop after the first packet it writes
RECURSIVE clients_loop_first_only(_, _, _)
clients_loop_first_only(cs, equiped_entity, equips_e) ==
    IF cs = <<>> THEN <<>>
    ELSE IF client_receives(Head(cs), equiped_entity)
         THEN <<write_packet(Head(cs), equiped_entity,
                             iter_modified_equipments(equips_e))>>
         ELSE clients_loop_first_only(Tail(cs), equiped_entity, equips_e)

\* the inner loop over the clients query, for the clients cs in order
RECURSIVE clients_loop(_, _, _)
clients_loop(cs, equiped_entity, equips_e) ==
    IF cs = <<>> THEN <<>>
    ELSE IF client_receives(Head(cs), equiped_entity)
         THEN <<write_packet(Head(cs), equiped_entity,
                             iter_modified_equipments(equips_e))>>
              \o clients_loop(Tail(cs), equiped_entity, equips_e)
         ELSE clients_loop(Tail(cs), equiped_entity, equips_e)

\* entities_loop with clear_modified_slot called only when a packet was written
RECURSIVE entities_loop_clear_if_sent(_, _, _)
entities_loop_clear_if_sent(es, eqs, calls) ==
    IF es = <<>> THEN [equips |-> eqs, trace |-> calls]
    ELSE LET equiped_entity == Head(es)
             written == clients_loop(ClientEntities, equiped_entity, eqs[equiped_entity])
         IN  IF ~changed[equiped_entity] \/ ~has_modified_slots(eqs[equiped_entity])
             THEN entities_loop_clear_if_sent(Tail(es), eqs, calls)
             ELSE IF written = <<>>
             THEN entities_loop_clear_if_sent(Tail(es), eqs, calls)
             ELSE entities_loop_clear_if_sent(Tail(es),
                      [eqs EXCEPT ![equiped_entity] = clear_modified_slot(@)],
                      calls \o written \o <<clear_call(equiped_entity)>>)

\* entities_loop with clear_modified_slot called before the clients loop
RECURSIVE entities_loop_clear_first(_, _, _)
entities_loop_clear_first(es, eqs, calls) ==
    IF es = <<>> THEN [equips |-> eqs, trace |-> calls]
    ELSE LET equiped_entity == Head(es)
             cleared == [eqs EXCEPT ![equiped_entity] = clear_modified_slot(@)]
         IN  IF ~changed[equiped_entity] \/ ~has_modified_slots(eqs[equiped_entity])
             THEN entities_loop_clear_first(Tail(es), eqs, calls)
             ELSE entities_loop_clear_first(Tail(es), cleared,
                      calls \o <<clear_call(equiped_entity)>>
                            \o clients_loop(ClientEntities, equiped_entity,
                                            cleared[equiped_entity]))

\* the outer loop over the equiped entities query, for the entities es in
\* order: the components and the calls made once the loop is over
RECURSIVE entities_loop(_, _, _)
entities_loop(es, eqs, calls) ==
    IF es = <<>> THEN [equips |-> eqs, trace |-> calls]
    ELSE LET equiped_entity == Head(es)
         IN  IF ~changed[equiped_entity]
             THEN entities_loop(Tail(es), eqs, calls)
             ELSE IF ~has_modified_slots(eqs[equiped_entity])
             THEN entities_loop(Tail(es), eqs, calls)
             ELSE entities_loop(Tail(es),
                      [eqs EXCEPT ![equiped_entity] = clear_modified_slot(@)],
                      calls \o clients_loop(ClientEntities, equiped_entity,
                                            eqs[equiped_entity])
                            \o <<clear_call(equiped_entity)>>)

UpdateEquipment ==
    /\ LET done == entities_loop(EquipedEntities, equips, <<>>)
       IN  /\ equips' = done.equips
           /\ trace' = done.trace
    /\ changed' = [e \in Equiped |-> FALSE]
    /\ last_op' = Op("update_equipment", 0, None, None, None)
    /\ ret' = None
    /\ IF observer = 0
       THEN UNCHANGED history
       ELSE LET done == entities_loop(EquipedEntities, equips, <<>>)
                received == Received(done.trace, observer, ObservedEntity)
                copy == ApplyPackets(replica, received)
                flushed == Flushed(equips[ObservedEntity], done.equips[ObservedEntity])
            IN  /\ replica' = copy
                /\ synced' = ((synced /\ Tracks(observer, ObservedEntity))
                               \/ copy = ItemsOf(done.equips[ObservedEntity]))
                /\ missed' = IF Tracks(observer, ObservedEntity)
                              THEN missed
                              ELSE missed \cup flushed
    /\ UNCHANGED <<world_vars, mutations, world_changes, limits, conv, observer>>

\* ------------------------------------------------------------------------
\* Specifications
\* ------------------------------------------------------------------------
\* the slots game logic touches in Spec: the first, the last and one between
SystemSlots == {"MainHand", "Boots", "Helmet"}

\* The whole system: game logic mutates the components of all entities, the
\* world changes, and update_equipment runs once per tick.
Next ==
    \/ \E e \in Equiped, item \in ItemStack, slot \in SystemSlots : Set(e, item, slot)
    \/ \E e \in Equiped : Clear(e)
    \/ \E e \in Equiped, slot \in SystemSlots : Remove(e, slot)
    \/ \E e \in Equiped, i \in Instances : SetEntityInstance(e, i)
    \/ \E e \in Equiped, p \in ChunkPositions : SetEntityPosition(e, p)
    \/ \E c \in Clients, i \in Instances : SetClientInstance(c, i)
    \/ \E c \in Clients, v \in SUBSET ChunkPositions : SetClientView(c, v)
    \/ UpdateEquipment

Spec == Init /\ [][Next]_vars

\* One component under set / clear / remove on every slot and update_equipment,
\* in a world that stays as spawned.
StoreEntity == EquipedEntities[2]

StoreInit ==
    /\ Spawned
    /\ observer = 0
    /\ max_mutations = MaxStoreMutations
    /\ max_world_changes = 0

StoreNext ==
    \/ \E item \in ItemStack, slot \in EquipmentSlot : Set(StoreEntity, item, slot)
    \/ Clear(StoreEntity)
    \/ \E slot \in EquipmentSlot : Remove(StoreEntity, slot)
    \/ UpdateEquipment

StoreSpec == StoreInit /\ [][StoreNext]_vars

\* One component under its whole API, the read-only methods included, and
\* update_equipment.
ApiInit ==
    /\ Spawned
    /\ observer = 0
    /\ max_mutations = MaxApiMutations
    /\ max_world_changes = 0

ApiNext ==
    \/ \E item \in ItemStack, slot \in EquipmentSlot : Set(StoreEntity, item, slot)
    \/ Clear(StoreEntity)
    \/ \E slot \in EquipmentSlot : Remove(StoreEntity, slot)
    \/ UpdateEquipment
    \/ \E slot \in EquipmentSlot : Get(StoreEntity, slot)
    \/ IsEmpty(StoreEntity)
    \/ HasModifiedSlots(StoreEntity)
    \/ IterModifiedEquipments(StoreEntity)

ApiSpec == ApiInit /\ [][ApiNext]_vars

\* The component of ObservedEntity and the world between it and
\* ObserverClient change, update_equipment runs, and what the client is
\* written is followed.
ObsInit ==
    /\ Spawned
    /\ observer = ObserverClient
    /\ max_mutations = MaxObsMutations
    /\ max_world_changes = MaxObsWorldChanges

ObsNext ==
    \/ \E item \in ItemStack, slot \in SystemSlots : Set(ObservedEntity, item, slot)
    \/ Clear(ObservedEntity)
    \/ \E slot \in SystemSlots : Remove(ObservedEntity, slot)
    \/ \E i \in Instances : SetEntityInstance(ObservedEntity, i)
    \/ \E p \in ChunkPositions : SetEntityPosition(ObservedEntity, p)
    \/ \E i \in Instances : SetClientInstance(ObserverClient, i)
    \/ \E v \in SUBSET ChunkPositions : SetClientView(ObserverClient, v)
    \/ UpdateEquipment

ObsSpec == ObsInit /\ [][ObsNext]_vars

\* ------------------------------------------------------------------------
\* The conversions between EquipmentSlot and u8 / i8 / usize, each applied to
\* every value of its argument type (usize: a range and values beyond 16 bits)
\* ------------------------------------------------------------------------
U8 == 0..255
I8 == -128..127
Usize == (0..MaxUsize) \cup {65536, 65541, 16777221, 2147483647}

conv_frame ==
    UNCHANGED <<store_vars, world_vars, trace, last_op, ret, mutations,
                world_changes, limits, observer, history>>

\* EquipmentSlot::try_from(id: u8)
TryFromU8(id) ==
    /\ conv' = Conversion("try_from_u8", id, try_from_u8(id))
    /\ conv_frame

\* EquipmentSlot::try_from(id: i8)
TryFromI8(id) ==
    /\ conv' = Conversion("try_from_i8", id, try_from_i8(id))
    /\ conv_frame

\* EquipmentSlot::try_from(id: usize)
TryFromUsize(id) ==
    /\ conv' = Conversion("try_from_usize", id, try_from_usize(id))
    /\ conv_frame

\* u8::from(slot)
U8From(slot) ==
    /\ conv' = Conversion("u8_from", slot, u8_from(slot))
    /\ conv_frame

\* i8::from(slot)
I8From(slot) ==
    /\ conv' = Conversion("i8_from", slot, i8_from(slot))
    /\ conv_frame

\* usize::from(slot)
UsizeFrom(slot) ==
    /\ conv' = Conversion("usize_from", slot, usize_from(slot))
    /\ conv_frame

ConvInit ==
    /\ Spawned
    /\ observer = 0
    /\ max_mutations = 0
    /\ max_world_changes = 0

ConvNext ==
    \/ \E id \in U8 : TryFromU8(id)
    \/ \E id \in I8 : TryFromI8(id)
    \/ \E id \in Usize : TryFromUsize(id)
    \/ \E slot \in EquipmentSlot : U8From(slot)
    \/ \E slot \in EquipmentSlot : I8From(slot)
    \/ \E slot \in EquipmentSlot : UsizeFrom(slot)

ConvSpec == ConvInit /\ [][ConvNext]_vars

\* ------------------------------------------------------------------------
\* Vocabulary of the properties
\* ------------------------------------------------------------------------
\* the slot codes of the protocol
SlotCode ==
    [MainHand |-> 0, OffHand |-> 1, Boots |-> 2, Leggings |-> 3, Chestplate |-> 4,
     Helmet |-> 5]

\* bit i of a mask
BitSet(mask, i) == (mask \div (2 ^ i)) % 2 = 1
MaskBits == 0..7

Occupied(self, i) == self.equipments[i] # None
\* the item in table index i: None for an empty slot
ItemAt(self, i) == IF Occupied(self, i) THEN self.equipments[i][1].item ELSE None

\* the packets about entity e handed to client o, among the calls tr
PacketsTo(tr, o, e) ==
    SelectSeq(tr, LAMBDA c : c.call = "write_packet" /\ c.client = o /\ c.entity = e)
PacketsAbout(tr, e) ==
    SelectSeq(tr, LAMBDA c : c.call = "write_packet" /\ c.entity = e)
ClearsOf(tr, e) ==
    SelectSeq(tr, LAMBDA c : c.call = "clear_modified_slot" /\ c.entity = e)

\* the list is the diff of self: one entry per dirty slot, with the slot code
\* and the current content, and nothing else
IsDiffOf(list, self) ==
    /\ \A i \in SlotIndexes :
          Cardinality({k \in DOMAIN list : list[k].slot = i})
             = IF BitSet(self.modified_slots, i) THEN 1 ELSE 0
    /\ \A k \in DOMAIN list :
          /\ list[k].slot \in SlotIndexes
          /\ list[k].item = ItemAt(self, list[k].slot)

\* ------------------------------------------------------------------------
\* C1
\* ------------------------------------------------------------------------
\* C1: in one run of update_equipment, client O is handed a packet about
\* entity E iff E has modified slots at the start of the run, O is in the
\* instance of E, O is not E, and the view of O contains the chunk position
\* of E; then O is handed exactly one packet about E, otherwise none.
C1_Eligible(o, e) ==
    /\ equips[e].modified_slots # 0
    /\ client_instance[o] = mc_instance[e]
    /\ o # e
    /\ mc_position[e] \in client_view[o]

C1_OnePacketIffEligible ==
    [][last_op'.op = "update_equipment" =>
         \A e \in Equiped, o \in Clients :
            Len(PacketsTo(trace', o, e)) = IF C1_Eligible(o, e) THEN 1 ELSE 0]_vars

\* a run in which the player 1 had changes: client 3 got its packet, client 1
\* (the player itself) got none about 1, and got one about the mob 2
C1_Witness ==
    /\ last_op.op = "update_equipment"
    /\ Len(PacketsTo(trace, 3, 1)) = 1
    /\ Len(PacketsTo(trace, 1, 1)) = 0
    /\ Len(PacketsTo(trace, 1, 2)) = 1
    /\ Len(ClearsOf(trace, 1)) = 1

\* ------------------------------------------------------------------------
\* C2
\* ------------------------------------------------------------------------
\* C2: every packet a run of update_equipment writes about entity E carries
\* the protocol id of E and the full list of changes: one entry per dirty slot
\* of E with the slot code and the current content of the slot (None for an
\* empty slot), no entry for a slot that is not dirty; all the packets about
\* E in the run carry the same list.
C2_PacketContent ==
    [][last_op'.op = "update_equipment" =>
         \A k \in DOMAIN trace' :
            trace'[k].call = "write_packet" =>
               /\ trace'[k].entity \in Equiped
               /\ trace'[k].entity_id = protocol_id(trace'[k].entity)
               /\ IsDiffOf(trace'[k].equipment, equips[trace'[k].entity])
               /\ \A j \in DOMAIN trace' :
                     (trace'[j].call = "write_packet"
                        /\ trace'[j].entity = trace'[k].entity)
                     => trace'[j].equipment = trace'[k].equipment]_vars

\* two clients got the same packet about the mob 2, with three entries: the
\* main hand, an occupied slot and an emptied slot
C2_Witness ==
    /\ last_op.op = "update_equipment"
    /\ Len(PacketsAbout(trace, 2)) = 2
    /\ LET list == PacketsAbout(trace, 2)[1].equipment
       IN  /\ Len(list) = 3
           /\ \E k \in DOMAIN list : list[k].slot = 0
           /\ \E k \in DOMAIN list : list[k].item = None
           /\ \E k \in DOMAIN list : list[k].item # None

\* ------------------------------------------------------------------------
\* C3
\* ------------------------------------------------------------------------
\* C3: after a run of update_equipment the modified_slots of every entity
\* that had modified slots is 0, whether or not a client received its
\* packet, and the run called clear_modified_slot exactly once on it.
C3_ClearedOnce ==
    [][last_op'.op = "update_equipment" =>
         \A e \in Equiped :
            equips[e].modified_slots # 0 =>
               /\ equips'[e].modified_slots = 0
               /\ ~has_modified_slots(equips'[e])
               /\ Len(ClearsOf(trace', e)) = 1]_vars

\* a run that cleared the mob 2 although no client was handed a packet about it
C3_Witness ==
    /\ last_op.op = "update_equipment"
    /\ Len(ClearsOf(trace, 2)) = 1
    /\ Len(PacketsAbout(trace, 2)) = 0
    /\ equips[2].modified_slots = 0
    /\ \E i \in SlotIndexes : Occupied(equips[2], i)

\* ------------------------------------------------------------------------
\* C4
\* ------------------------------------------------------------------------
\* C4: a bit of modified_slots is cleared only by the clear_modified_slot of
\* a run of update_equipment, and bit S is set only by a mutation on slot S:
\* by set(_, S) or remove(S), or by a clear() that empties slot S. No other
\* step (a mutation on another slot, a read) changes a bit.
C4_BitsChangeOnlyBy ==
    [][\A e \in Equiped, i \in MaskBits :
          LET before == BitSet(equips[e].modified_slots, i)
              after == BitSet(equips'[e].modified_slots, i)
          IN  /\ (before /\ ~after) =>
                    /\ last_op'.op = "update_equipment"
                    /\ Len(ClearsOf(trace', e)) = 1
              /\ (~before /\ after) =>
                    /\ last_op'.entity = e
                    /\ \/ /\ last_op'.op \in {"set", "remove"}
                          /\ SlotCode[last_op'.slot[1]] = i
                       \/ /\ last_op'.op = "clear"
                          /\ i \in SlotIndexes
                          /\ Occupied(equips[e], i)]_vars

\* after set, set, update_equipment, remove: the remove marked its slot only,
\* and the other slot is still occupied with its bit cleared by the run
C4_Witness ==
    /\ last_op.op = "remove"
    /\ ret # None
    /\ mutations = 3
    /\ LET e == last_op.entity
           i == SlotCode[last_op.slot[1]]
       IN  /\ equips[e].modified_slots = 2 ^ i
           /\ \E j \in SlotIndexes : j # i /\ Occupied(equips[e], j)

\* ------------------------------------------------------------------------
\* C5
\* ------------------------------------------------------------------------
\* C5: after set(I, S), get(S) returns the entry holding I with the slot
\* code of S, and bit S of modified_slots is set; also when S held I before.
C5_SetThenGet ==
    [][last_op'.op = "set" =>
         LET e == last_op'.entity
             S == last_op'.slot[1]
             I == last_op'.item[1]
         IN  /\ get(equips'[e], S) = Some([slot |-> SlotCode[S], item |-> Some(I)])
             /\ BitSet(equips'[e].modified_slots, SlotCode[S])]_vars

\* a set that overwrote the slot with the value it already held
C5_Witness ==
    /\ last_op.op = "set"
    /\ last_op.dropped # None
    /\ last_op.dropped[1].item = last_op.item
    /\ BitSet(equips[last_op.entity].modified_slots, SlotCode[last_op.slot[1]])
    /\ get(equips[last_op.entity], last_op.slot[1]) = last_op.dropped

\* ------------------------------------------------------------------------
\* C6
\* ------------------------------------------------------------------------
\* C6 as claimed: remove(S) on an empty slot returns None and bit S of
\* modified_slots is set after the call.
C6_RemoveEmptyMarks ==
    [][last_op'.op = "remove" =>
         LET e == last_op'.entity
             i == SlotCode[last_op'.slot[1]]
         IN  ~Occupied(equips[e], i) =>
                /\ ret' = None
                /\ BitSet(equips'[e].modified_slots, i)]_vars

\* C6 as amended: remove(S) on an empty slot returns None and leaves
\* modified_slots as it was: bit S is set after the call only if it was set
\* before the call.
C6_RemoveEmptyKeepsMask ==
    [][last_op'.op = "remove" =>
         LET e == last_op'.entity
             i == SlotCode[last_op'.slot[1]]
         IN  ~Occupied(equips[e], i) =>
                /\ ret' = None
                /\ equips'[e].modified_slots = equips[e].modified_slots
                /\ ~Occupied(equips'[e], i)]_vars

\* a remove that found the slot empty after set, remove, update_equipment:
\* it returned None and the bit of the slot is clear
C6_Witness ==
    /\ last_op.op = "remove"
    /\ ret = None
    /\ mutations = 3
    /\ equips[last_op.entity].modified_slots = 0
    /\ \A i \in SlotIndexes : ~Occupied(equips[last_op.entity], i)

\* ------------------------------------------------------------------------
\* C7
\* ------------------------------------------------------------------------
\* C7: set(I, S) followed by remove(S) returns the entry holding I and leaves
\* S empty with bit S set; a remove(S) right after a remove(S) returns None.
C7_SameTarget ==
    /\ last_op'.op = "remove"
    /\ last_op.op \in {"set", "remove"}
    /\ last_op'.entity = last_op.entity
    /\ last_op'.slot = last_op.slot

C7_RoundTrip ==
    [][C7_SameTarget =>
         LET e == last_op'.entity
             S == last_op'.slot[1]
         IN  /\ last_op.op = "set" =>
                   /\ ret' = Some([slot |-> SlotCode[S], item |-> last_op.item])
                   /\ get(equips'[e], S) = None
                   /\ BitSet(equips'[e].modified_slots, SlotCode[S])
             /\ last_op.op = "remove" => ret' = None]_vars

\* the state after set(I, S), remove(S), remove(S)
C7_Witness ==
    /\ last_op.op = "remove"
    /\ ret = None
    /\ mutations = 3
    /\ equips[last_op.entity].modified_slots = 2 ^ SlotCode[last_op.slot[1]]
    /\ \A i \in SlotIndexes : ~Occupied(equips[last_op.entity], i)

\* ------------------------------------------------------------------------
\* C8
\* ------------------------------------------------------------------------
\* C8: after clear() every slot is empty and the bit of every slot that was
\* occupied just before the call is set.
C8_ClearEmptiesAndMarks ==
    [][last_op'.op = "clear" =>
         LET e == last_op'.entity
         IN  \A i \in SlotIndexes :
                /\ ~Occupied(equips'[e], i)
                /\ get(equips'[e], unwrap(try_from_u8(i).val)) = None
                /\ Occupied(equips[e], i) => BitSet(equips'[e].modified_slots, i)]_vars

\* a clear() that emptied three slots
C8_Witness ==
    /\ last_op.op = "clear"
    /\ mutations = 4
    /\ Cardinality({i \in SlotIndexes :
                      BitSet(equips[last_op.entity].modified_slots, i)}) = 3
    /\ \A i \in SlotIndexes : ~Occupied(equips[last_op.entity], i)

\* ------------------------------------------------------------------------
\* C9
\* ------------------------------------------------------------------------
\* C9 as claimed: after clear() on a state with some occupied slot, the bit
\* of every slot that was empty just before the call is unset.
C9_ClearUnsetsEmpty ==
    [][last_op'.op = "clear" =>
         LET e == last_op'.entity
         IN  (\E j \in SlotIndexes : Occupied(equips[e], j)) =>
                \A i \in SlotIndexes :
                   ~Occupied(equips[e], i) => ~BitSet(equips'[e].modified_slots, i)]_vars

\* C9 as amended: clear() on a state with some occupied slot leaves the bit
\* of every slot that was empty just before the call as it was: unset if it
\* was unset, set if it was set.
C9_ClearKeepsEmpty ==
    [][last_op'.op = "clear" =>
         LET e == last_op'.entity
         IN  (\E j \in SlotIndexes : Occupied(equips[e], j)) =>
                \A i \in SlotIndexes :
                   ~Occupied(equips[e], i) =>
                      (BitSet(equips'[e].modified_slots, i)
                         <=> BitSet(equips[e].modified_slots, i))]_vars

\* a clear() that marked one slot and left the bits of the others unset
C9_Witness ==
    /\ last_op.op = "clear"
    /\ Cardinality({i \in SlotIndexes :
                      BitSet(equips[last_op.entity].modified_slots, i)}) = 1
    /\ mutations = 2

\* ------------------------------------------------------------------------
\* C10
\* ------------------------------------------------------------------------
\* C10: iter_modified_equipments yields exactly one entry per set bit of
\* modified_slots and none for a clear bit, each with the slot and the
\* current content of the slot, (slot, None) for a dirty slot that is now
\* empty; the call changes neither the table nor modified_slots.
C10_DrainIsDiff ==
    [][last_op'.op = "iter_modified_equipments" =>
         LET e == last_op'.entity
         IN  /\ IsDiffOf(ret', equips[e])
             /\ Len(ret') = Cardinality({i \in MaskBits :
                                           BitSet(equips[e].modified_slots, i)})
             /\ equips' = equips]_vars

\* a call that yielded an entry for an emptied slot next to an occupied one
C10_Witness ==
    /\ last_op.op = "iter_modified_equipments"
    /\ Len(ret) >= 2
    /\ \E k \in DOMAIN ret : ret[k].item = None
    /\ \E k \in DOMAIN ret : ret[k].item # None

\* ------------------------------------------------------------------------
\* C11
\* ------------------------------------------------------------------------
\* C11: after the clear_modified_slot of a run of update_equipment,
\* iter_modified_equipments yields nothing and has_modified_slots is false,
\* and this stays so until set, remove or clear is called on the entity; a
\* run of update_equipment that finds the entity so writes no packet about it.
C11_Mutates(e) ==
    /\ last_op'.op \in {"set", "remove", "clear"}
    /\ last_op'.entity = e

C11_Flushed(self) ==
    /\ iter_modified_equipments(self) = <<>>
    /\ ~has_modified_slots(self)

C11_FlushIdempotent ==
    [][\A e \in Equiped :
          /\ last_op'.op = "update_equipment" => C11_Flushed(equips'[e])
          /\ (C11_Flushed(equips[e]) /\ ~C11_Mutates(e)) =>
                /\ C11_Flushed(equips'[e])
                /\ last_op'.op = "update_equipment" =>
                      /\ PacketsAbout(trace', e) = <<>>
                      /\ ClearsOf(trace', e) = <<>>]_vars

\* a second run of update_equipment with no mutation since the first: the mob
\* 2 holds an item, and the run made no call at all
C11_Witness ==
    /\ last_op.op = "update_equipment"
    /\ trace = <<>>
    /\ mutations >= 1
    /\ \E i \in SlotIndexes : Occupied(equips[2], i)
    /\ C11_Flushed(equips[2])

\* ------------------------------------------------------------------------
\* C12
\* ------------------------------------------------------------------------
\* C12: is_empty() returns true iff no slot is occupied, whatever
\* modified_slots is: true for a new component, after clear() and after the
\* removal of every item, false as soon as a slot holds an item.
C12_IsEmptyIffNoneOccupied ==
    [][last_op'.op = "is_empty" =>
         (ret' <=> \A i \in SlotIndexes : ~Occupied(equips[last_op'.entity], i))]_vars

\* ------------------------------------------------------------------------
\* C15
\* ------------------------------------------------------------------------
\* C15: a new component has its six slots empty, modified_slots = 0,
\* has_modified_slots false and iter_modified_equipments empty.
C15_FreshIsEmptyAndClean ==
    last_op.op = "new" =>
       \A e \in Equiped :
          /\ DOMAIN equips[e].equipments = 0..5
          /\ \A i \in 0..5 : equips[e].equipments[i] = None
          /\ \A slot \in EquipmentSlot : get(equips[e], slot) = None
          /\ equips[e].modified_slots = 0
          /\ ~has_modified_slots(equips[e])
          /\ iter_modified_equipments(equips[e]) = <<>>

\* the state right after construction
C15_Witness ==
    /\ last_op.op = "new"
    /\ mutations = 0
    /\ equips[StoreEntity] = new

\* ------------------------------------------------------------------------
\* C19
\* ------------------------------------------------------------------------
\* C19: set(I, S) and remove(S) leave the content of every slot other than S
\* as it was; get, is_empty, has_modified_slots and iter_modified_equipments
\* leave the whole table and modified_slots as they were.
C19_ReadOps == {"get", "is_empty", "has_modified_slots", "iter_modified_equipments"}

C19_Frame ==
    [][/\ last_op'.op \in {"set", "remove"} =>
             /\ \A i \in SlotIndexes :
                   i # SlotCode[last_op'.slot[1]] =>
                      equips'[last_op'.entity].equipments[i]
                         = equips[last_op'.entity].equipments[i]
             /\ \A e \in Equiped : e # last_op'.entity => equips'[e] = equips[e]
       /\ last_op'.op \in C19_ReadOps => equips' = equips]_vars

\* a remove that emptied its slot next to a slot that still holds its item
C19_Witness ==
    /\ last_op.op = "remove"
    /\ ret # None
    /\ \E i \in SlotIndexes :
          /\ i # SlotCode[last_op.slot[1]]
          /\ Occupied(equips[last_op.entity], i)

\* ------------------------------------------------------------------------
\* C20
\* ------------------------------------------------------------------------
\* C20: in every reachable state an occupied slot at table index i holds an
\* entry whose slot code is i and whose item is present, and modified_slots
\* has no bit above bit 5.
C20_Structure ==
    \A e \in Equiped :
       /\ DOMAIN equips[e].equipments = 0..5
       /\ \A i \in 0..5 :
             Occupied(equips[e], i) =>
                /\ equips[e].equipments[i][1].slot = i
                /\ equips[e].equipments[i][1].item # None
       /\ equips[e].modified_slots \in 0..63

\* the last slot is occupied and marked, next to another occupied slot
C20_Witness ==
    /\ Occupied(equips[StoreEntity], 5)
    /\ BitSet(equips[StoreEntity].modified_slots, 5)
    /\ Occupied(equips[StoreEntity], 0)

\* ------------------------------------------------------------------------
\* C13
\* ------------------------------------------------------------------------
C13_Decoders == {"try_from_u8", "try_from_i8", "try_from_usize"}

\* C13: EquipmentSlot::try_from returns Err("Invalid value") for every u8, i8
\* and usize outside 0..5 and Ok for every value in 0..5.
C13_DecodeOkIffInRange ==
    [][conv'.fn \in C13_Decoders =>
         IF conv'.arg \in 0..5
         THEN conv'.result.ok
         ELSE conv'.result = Err("Invalid value")]_vars

\* ------------------------------------------------------------------------
\* C14
\* ------------------------------------------------------------------------
C14_Encoders == {"u8_from", "i8_from", "usize_from"}

\* C14: u8::from, i8::from and usize::from map every slot to the same code,
\* MainHand 0, OffHand 1, Boots 2, Leggings 3, Chestplate 4, Helmet 5;
\* try_from of the code of a slot is that slot, and the code of try_from(n)
\* is n for every n in 0..5; the same holds when the decoding is the step
\* that follows the encoding, or the encoding the step that follows the
\* decoding.
C14_CodesFixedAndInverse ==
    [][/\ conv'.fn \in C14_Encoders =>
             /\ conv'.result = SlotCode[conv'.arg]
             /\ u8_from(conv'.arg) = conv'.result
             /\ i8_from(conv'.arg) = conv'.result
             /\ usize_from(conv'.arg) = conv'.result
             /\ try_from_u8(conv'.result) = Ok(conv'.arg)
             /\ try_from_i8(conv'.result) = Ok(conv'.arg)
             /\ try_from_usize(conv'.result) = Ok(conv'.arg)
       /\ (conv'.fn \in C13_Decoders /\ conv'.arg \in 0..5) =>
             /\ conv'.result.ok
             /\ u8_from(unwrap(conv'.result.val)) = conv'.arg
             /\ i8_from(unwrap(conv'.result.val)) = conv'.arg
             /\ usize_from(unwrap(conv'.result.val)) = conv'.arg
       /\ (conv.fn \in C14_Encoders /\ conv'.fn \in C13_Decoders
             /\ conv'.arg = conv.result) =>
             conv'.result = Ok(conv.arg)
       /\ (conv.fn \in C13_Decoders /\ conv.arg \in 0..5 /\ conv.result.ok
             /\ conv'.fn \in C14_Encoders
             /\ conv'.arg = unwrap(conv.result.val)) =>
             conv'.result = conv.arg]_vars

\* the last slot was encoded as 5 and 5 decodes to it
C14_Witness ==
    /\ conv.fn = "usize_from"
    /\ conv.arg = "Helmet"
    /\ conv.result = 5
    /\ try_from_usize(conv.result) = Ok("Helmet")

\* ------------------------------------------------------------------------
\* C16
\* ------------------------------------------------------------------------
\* client o is one of those the run of update_equipment writes to about e
C16_InRange(o, e) ==
    /\ client_instance[o] = mc_instance[e]
    /\ o # e
    /\ mc_position[e] \in client_view[o]

\* the bits of e that the run cleared
C16_Cleared(e) ==
    {i \in SlotIndexes : /\ BitSet(equips[e].modified_slots, i)
                         /\ ~BitSet(equips'[e].modified_slots, i)}

\* C16: in a run of update_equipment the slots of an entity are the same
\* when its packets are built and when clear_modified_slot is called, that
\* call comes after the packet was written to every client in range, and
\* every bit it clears is an entry of each of these packets, with the content
\* the slot holds when the bit is cleared; no bit is cleared without a call.
C16_ClearAfterSend ==
    [][last_op'.op = "update_equipment" =>
         \A e \in Equiped :
            /\ equips'[e].equipments = equips[e].equipments
            /\ C16_Cleared(e) # {} => Len(ClearsOf(trace', e)) = 1
            /\ \A k \in DOMAIN trace' :
                  (trace'[k].call = "clear_modified_slot" /\ trace'[k].entity = e) =>
                     /\ \A j \in DOMAIN trace' :
                           (trace'[j].call = "write_packet" /\ trace'[j].entity = e)
                              => j < k
                     /\ \A o \in Clients :
                           C16_InRange(o, e) =>
                              \E j \in 1..(k - 1) :
                                 /\ trace'[j].call = "write_packet"
                                 /\ trace'[j].client = o
                                 /\ trace'[j].entity = e
                                 /\ \A i \in C16_Cleared(e) :
                                       \E n \in DOMAIN trace'[j].equipment :
                                          /\ trace'[j].equipment[n].slot = i
                                          /\ trace'[j].equipment[n].item
                                                = ItemAt(equips'[e], i)]_vars

\* a run that wrote the packet about the mob 2 to both clients and then
\* cleared its bits, one of them for a slot that holds nothing
C16_Witness ==
    /\ last_op.op = "update_equipment"
    /\ Len(trace) = 3
    /\ trace[1].call = "write_packet" /\ trace[1].entity = 2
    /\ trace[2].call = "write_packet" /\ trace[2].entity = 2
    /\ trace[1].client # trace[2].client
    /\ trace[3] = clear_call(2)
    /\ \E n \in DOMAIN trace[1].equipment : trace[1].equipment[n].item = None
    /\ equips[2].modified_slots = 0

\* ------------------------------------------------------------------------
\* C17
\* ------------------------------------------------------------------------
\* C17: a run of update_equipment writes no packet about E to a client that
\* is in another instance or whose view does not contain the position of E;
\* and once a run cleared the bit of slot S of E while the followed client
\* was such a client, no later run writes that client an entry for S until
\* S is mutated again, also when the client has E in view again.
C17_NoLateDiff ==
    [][last_op'.op = "update_equipment" =>
         /\ \A o \in Clients, e \in Equiped :
               ~Tracks(o, e) => PacketsTo(trace', o, e) = <<>>
         /\ observer # 0 =>
               \A k \in DOMAIN trace' :
                  (/\ trace'[k].call = "write_packet"
                   /\ trace'[k].client = observer
                   /\ trace'[k].entity = ObservedEntity) =>
                     \A n \in DOMAIN trace'[k].equipment :
                        trace'[k].equipment[n].slot \notin missed]_vars

\* the client lost the mob and has it in view again; the run wrote it a packet
\* for a slot mutated since, and the slot flushed meanwhile, which holds an
\* item, is still empty in what the client holds
C17_Witness ==
    /\ last_op.op = "update_equipment"
    /\ observer = ObserverClient
    /\ Tracks(observer, ObservedEntity)
    /\ world_changes = 2
    /\ PacketsTo(trace, observer, ObservedEntity) # <<>>
    /\ \E i \in missed :
          /\ ItemAt(equips[ObservedEntity], i) # None
          /\ replica[i] = None

\* ------------------------------------------------------------------------
\* C18
\* ------------------------------------------------------------------------
\* C18: if what the followed client holds for E was equal to the slots of E
\* at a moment when modified_slots was 0, and every run of update_equipment
\* since wrote the client its packet about E, then after the next such run,
\* with the listed slots overwritten by the content the entries carry, what
\* the client holds is again equal to the slots of E, whatever set, remove and
\* clear calls were made between the runs.
C18_ReplicaConverges ==
    [][(/\ last_op'.op = "update_equipment"
        /\ observer # 0
        /\ synced
        /\ Tracks(observer, ObservedEntity)) =>
          /\ replica' = ItemsOf(equips'[ObservedEntity])
          /\ \A i \in SlotIndexes : replica'[i] = ItemAt(equips'[ObservedEntity], i)
          /\ ~has_modified_slots(equips'[ObservedEntity])
          /\ synced']_vars

\* after two mutations the client was written one entry, Stone for a slot,
\* and holds Stone in that slot and nothing else, as the mob does
C18_Witness ==
    /\ last_op.op = "update_equipment"
    /\ observer = ObserverClient
    /\ synced
    /\ mutations = 2
    /\ Len(PacketsTo(trace, observer, ObservedEntity)) = 1
    /\ Len(PacketsTo(trace, observer, ObservedEntity)[1].equipment) = 1
    /\ PacketsTo(trace, observer, ObservedEntity)[1].equipment[1].item = Some("Stone")
    /\ Cardinality({i \in SlotIndexes : replica[i] # None}) = 1
    /\ replica = ItemsOf(equips[ObservedEntity])

====
